---- MODULE Spec2Model ----
(***************************************************************************)
(* A model of streamlit_app.py, the Prescription Verifier: one Streamlit   *)
(* script whose every run is triggered by a user interaction.  A run with  *)
(* the "Verify" button pressed builds a single-item payload, calls         *)
(* call_api and renders the result; a run with "Verify All" pressed        *)
(* normalises the text area into a batch payload, calls call_api, unwraps  *)
(* the response and renders the batch.  st.stop() ends the run on the      *)
(* spot; an exception nobody catches ends it too.                          *)
(*                                                                         *)
(* Text typed by the user is a sequence of one-character strings, so that  *)
(* str.strip and str.splitlines are computed.  Values that come out of     *)
(* json parsing are tagged records (t is the Python type).                 *)
(***************************************************************************)
EXTENDS Integers, Sequences, FiniteSets, TLC

VARIABLES
    secrets,        \* st.secrets: a dict that may hold "api_key"
    session_state,  \* st.session_state: last_single_raw, last_batch_raw
    run,            \* what the last script run did (request, messages, output)
    lastOk          \* history: payload of the latest 2xx JSON reply, per call site

vars == <<secrets, session_state, run, lastOk>>

----------------------------------------------------------------------------
(* Python values *)

PyNone == [t |-> "null"]
PyStr(s) == [t |-> "str", s |-> s]
PyBool(b) == [t |-> "bool", b |-> b]
PyInt(n) == [t |-> "int", n |-> n]
PyList(a) == [t |-> "arr", a |-> a]
PyDict(o) == [t |-> "obj", o |-> o]

\* A session_state key that was never assigned.
Unset == [t |-> "unset"]

\* bool(v), as `if not api_key`, `if not data.get("valid")` evaluate it
Truthy(v) ==
    CASE v.t = "null" -> FALSE
      [] v.t = "bool" -> v.b
      [] v.t = "str" -> v.s # ""
      [] v.t = "int" -> v.n # 0
      [] v.t = "arr" -> v.a # <<>>
      [] v.t = "obj" -> DOMAIN v.o # {}
      [] OTHER -> FALSE

\* d.get(k, default) of a dict
DictGet(d, k, default) == IF k \in DOMAIN d.o THEN d.o[k] ELSE default

----------------------------------------------------------------------------
(* Text typed into the widgets *)

\* str.isspace(), on the characters the texts of the model are made of
IsSpace(c) == c \in {" ", "\t", "\n", "\r"}

RECURSIVE LStrip(_)
LStrip(s) == IF s # <<>> /\ IsSpace(Head(s)) THEN LStrip(Tail(s)) ELSE s

RECURSIVE RStrip(_)
RStrip(s) ==
    IF s # <<>> /\ IsSpace(s[Len(s)]) THEN RStrip(SubSeq(s, 1, Len(s) - 1)) ELSE s

\* str.strip()
Strip(s) == RStrip(LStrip(s))

\* The first line end at or after position i, Len(text) + 1 when none is left
NextBreak(text, i) ==
    IF \E j \in i..Len(text) : text[j] \in {"\n", "\r"}
    THEN CHOOSE j \in i..Len(text) :
            /\ text[j] \in {"\n", "\r"}
            /\ \A k \in i..(j - 1) : text[k] \notin {"\n", "\r"}
    ELSE Len(text) + 1

\* str.splitlines(): "\n", "\r" and "\r\n" end a line; no empty last line
RECURSIVE SplitFrom(_, _)
SplitFrom(text, i) ==
    IF i > Len(text) THEN <<>>
    ELSE LET j == NextBreak(text, i)
             next == IF j < Len(text) /\ text[j] = "\r" /\ text[j + 1] = "\n"
                     THEN j + 2 ELSE j + 1
         IN  <<SubSeq(text, i, j - 1)>> \o SplitFrom(text, next)

splitlines(text) == SplitFrom(text, 1)

\* [line.strip() for line in lines if line.strip()]
RECURSIVE StripNonBlank(_)
StripNonBlank(lines) ==
    IF lines = <<>> THEN <<>>
    ELSE LET s == Strip(Head(lines))
         IN  (IF s # <<>> THEN <<s>> ELSE <<>>) \o StripNonBlank(Tail(lines))

\* items, as line 162 computes it from the text area
BatchItems(raw_input) == StripNonBlank(splitlines(raw_input))

----------------------------------------------------------------------------
(* The verification service, as call_api sees it *)

API_URL == "https://sqwevzxsufrbsyjrucuw.supabase.co/functions/v1/verify-prescription-api"

\* Response bodies (resp.text) the service may send.
TextA == "{\"valid\": true, \"prescription_number\": \"RX1\", \"status\": \"active\"}"
TextB == "{\"valid\": false, \"error\": \"Prescription expired\"}"
TextPending == "{\"valid\": true, \"status\": \"pending\"}"
TextNoStatus == "{\"valid\": true, \"prescription_number\": \"RX2\"}"
TextNullStatus == "{\"valid\": true, \"status\": null}"
TextResultsAB == "{\"results\": [A, B]}"
TextResultsPending == "{\"results\": [B, PENDING]}"
TextResultsEmpty == "{\"results\": []}"
TextResultsNull == "{\"results\": null}"
TextResultsStr == "{\"results\": \"unavailable\"}"
TextResultsObj == "{\"results\": A}"
TextArray == "[A]"
TextNull == "null"
TextHtml == "<html>Bad Gateway</html>"
TextEmpty == ""

ResultA ==
    PyDict([valid |-> PyBool(TRUE), prescription_number |-> PyStr("RX1"),
            status |-> PyStr("active")])
ResultB == PyDict([valid |-> PyBool(FALSE), error |-> PyStr("Prescription expired")])
ResultPending == PyDict([valid |-> PyBool(TRUE), status |-> PyStr("pending")])
ResultNoStatus ==
    PyDict([valid |-> PyBool(TRUE), prescription_number |-> PyStr("RX2")])
ResultNullStatus == PyDict([valid |-> PyBool(TRUE), status |-> PyNone])

\* Raised by resp.json() on a body that is not JSON.
NotJson == [t |-> "JSONDecodeError"]

\* resp.json(): the parse of each body above (A, B, PENDING stand for the
\* objects of TextA, TextB, TextPending inside the longer bodies)
json_loads(text) ==
    CASE text = TextA -> ResultA
      [] text = TextB -> ResultB
      [] text = TextPending -> ResultPending
      [] text = TextNoStatus -> ResultNoStatus
      [] text = TextNullStatus -> ResultNullStatus
      [] text = TextResultsAB -> PyDict([results |-> PyList(<<ResultA, ResultB>>)])
      [] text = TextResultsPending ->
            PyDict([results |-> PyList(<<ResultB, ResultPending>>)])
      [] text = TextResultsEmpty -> PyDict([results |-> PyList(<<>>)])
      [] text = TextResultsNull -> PyDict([results |-> PyNone])
      [] text = TextResultsStr -> PyDict([results |-> PyStr("unavailable")])
      [] text = TextResultsObj -> PyDict([results |-> ResultA])
      [] text = TextArray -> PyList(<<ResultA>>)
      [] text = TextNull -> PyNone
      [] OTHER -> NotJson

\* What requests.post meets: a response, or a failure before any response.
Response(status_code, text) ==
    [kind |-> "response", status_code |-> status_code, text |-> text]
ConnectionError == [kind |-> "ConnectionError"]
Timeout == [kind |-> "Timeout"]

\* requests' Response.ok: raise_for_status() raises for 400 <= status < 600
ResponseOk(status_code) == ~(400 <= status_code /\ status_code < 600)

----------------------------------------------------------------------------
(* call_api *)

\* st.error messages of call_api (the format string and what fills it)
NoMessage == [fmt |-> "", args |-> <<>>]
MsgNoKey ==
    [fmt |-> "API key not found. Add api_key to your Streamlit secrets.",
     args |-> <<>>]
Msg401 == [fmt |-> "401 - Missing or invalid API key.", args |-> <<>>]
Msg403 == [fmt |-> "403 - API key disabled or unauthorized role.", args |-> <<>>]
Msg400(text) == [fmt |-> "400 - Bad request: {resp.text}", args |-> [text |-> text]]
Msg405 == [fmt |-> "405 - Method not allowed.", args |-> <<>>]
MsgOther(status_code, text) ==
    [fmt |-> "{resp.status_code} - {resp.text}",
     args |-> [status_code |-> status_code, text |-> text]]

\* st.secrets["api_key"], None when the lookup raises
get_api_key(s) == IF "api_key" \in DOMAIN s THEN s["api_key"] ELSE PyNone

\* The check written as "if api_key is None": an empty key gets through
KeyMissing_IsNone(api_key) == api_key = PyNone

\* "if not api_key" (line 27)
KeyMissing(api_key) == ~Truthy(api_key)

\* requests.post inside a retry-once-on-failure loop
HttpPosts_Retry(api_key, payload, reply) ==
    LET req == [method |-> "POST", url |-> API_URL,
                headers |-> [ContentType |-> "application/json",
                             x_api_key |-> api_key.s],
                json |-> payload, timeout |-> 30]
    IN  IF reply.kind # "response" THEN <<req, req>> ELSE <<req>>

\* The requests issued by requests.post(...): one POST, whatever comes back
HttpPosts(api_key, payload, reply) ==
    << [method |-> "POST", url |-> API_URL,
        headers |-> [ContentType |-> "application/json", x_api_key |-> api_key.s],
        json |-> payload, timeout |-> 30] >>

\* The chain without its 405 branch
StatusMessage_No405(resp) ==
    IF resp.status_code = 401 THEN Msg401
    ELSE IF resp.status_code = 403 THEN Msg403
    ELSE IF resp.status_code = 400 THEN Msg400(resp.text)
    ELSE IF ~ResponseOk(resp.status_code) THEN MsgOther(resp.status_code, resp.text)
    ELSE NoMessage

\* The if/elif chain on resp.status_code (lines 38-52): the message shown
\* before st.stop(), NoMessage when no branch is taken
StatusMessage(resp) ==
    IF resp.status_code = 401 THEN Msg401
    ELSE IF resp.status_code = 403 THEN Msg403
    ELSE IF resp.status_code = 400 THEN Msg400(resp.text)
    ELSE IF resp.status_code = 405 THEN Msg405
    ELSE IF ~ResponseOk(resp.status_code) THEN MsgOther(resp.status_code, resp.text)
    ELSE NoMessage

\* call_api(payload) under secrets s, when the network answers `reply`.
\*   posts: the HTTP requests issued;  error: the st.error shown;
\*   halt: "none" (returned), "stop" (st.stop()), "exception" (uncaught);
\*   ret: the value returned to the caller.
call_api(s, payload, reply) ==
    LET api_key == get_api_key(s)
        quiet == [api_key |-> api_key, posts |-> <<>>, error |-> NoMessage,
                  halt |-> "none", exc |-> "", ret |-> Unset]
    IN  IF KeyMissing(api_key)
        THEN [quiet EXCEPT !.error = MsgNoKey, !.halt = "stop"]
        ELSE LET sent == [quiet EXCEPT !.posts = HttpPosts(api_key, payload, reply)]
             IN  IF reply.kind # "response"
                 THEN [sent EXCEPT !.halt = "exception", !.exc = reply.kind]
                 ELSE IF StatusMessage(reply) # NoMessage
                 THEN [sent EXCEPT !.error = StatusMessage(reply), !.halt = "stop"]
                 ELSE IF json_loads(reply.text) = NotJson
                 THEN [sent EXCEPT !.halt = "exception", !.exc = "JSONDecodeError"]
                 ELSE [sent EXCEPT !.ret = json_loads(reply.text)]

----------------------------------------------------------------------------
(* Rendering.  A render function yields [exc, out]: the exception that     *)
(* ended it ("" when it returned) and the widgets it had emitted by then.  *)
(* The payloads above carry none of patient_name, doctor_name,             *)
(* organization, patient_id, created_at, valid_until, diagnosis and        *)
(* medications; the widgets that only show those fields are left out.      *)

Dash == PyStr("-")

\* str.upper() on the status strings that occur
Upper(s) ==
    CASE s = "active" -> "ACTIVE"
      [] s = "expired" -> "EXPIRED"
      [] s = "used" -> "USED"
      [] s = "revoked" -> "REVOKED"
      [] s = "pending" -> "PENDING"
      [] OTHER -> s

\* colors.get(status, white) for a str status
Color(s) ==
    CASE s = "active" -> "green"
      [] s = "expired" -> "red"
      [] s = "used" -> "yellow"
      [] s = "revoked" -> "red"
      [] OTHER -> "white"

\* status_badge(status): a list or dict is unhashable in colors.get, and
\* only a str has .upper()
status_badge(status) ==
    IF status.t \in {"arr", "obj"} THEN [exc |-> "TypeError", badge |-> <<>>]
    ELSE IF status.t # "str" THEN [exc |-> "AttributeError", badge |-> <<>>]
    ELSE [exc |-> "", badge |-> [color |-> Color(status.s), text |-> Upper(status.s)]]

render_single_result(data) ==
    IF data.t # "obj" THEN [exc |-> "AttributeError", out |-> <<>>]
    ELSE IF ~Truthy(DictGet(data, "valid", PyNone))
    THEN [exc |-> "",
          out |-> << [w |-> "error", fmt |-> "Invalid prescription - {error}",
                      arg |-> DictGet(data, "error", PyStr("Unknown error"))] >>]
    ELSE LET head == << [w |-> "success", text |-> "Valid Prescription"],
                        [w |-> "metric", label |-> "Rx Number",
                         value |-> DictGet(data, "prescription_number", Dash)] >>
             b == status_badge(DictGet(data, "status", Dash))
         IN  IF b.exc # "" THEN [exc |-> b.exc, out |-> head]
             ELSE [exc |-> "",
                   out |-> Append(head, [w |-> "metric", label |-> "Status",
                                         value |-> b.badge])]

\* What `for r in results` walks through.  Iterating a str gives its
\* characters and iterating a dict its keys: all of them str, none of which
\* has .get, so one stands for them all.
IterElems(v) ==
    CASE v.t = "arr" -> v.a
      [] v.t = "str" -> IF v.s = "" THEN <<>> ELSE <<PyStr(v.s)>>
      [] v.t = "obj" -> IF DOMAIN v.o = {} THEN <<>> ELSE <<PyStr("key")>>
      [] OTHER -> <<>>

\* The expanders of render_batch_results, from the i-th on
RECURSIVE Expanders(_, _, _)
Expanders(rs, i, total) ==
    IF i > Len(rs) THEN [exc |-> "", out |-> <<>>]
    ELSE LET r == rs[i]
             pn == DictGet(r, "prescription_number", PyNone)
             body == render_single_result(r)
             exp == [w |-> "expander",
                     valid |-> Truthy(DictGet(r, "valid", PyNone)),
                     label |-> IF Truthy(pn) THEN pn
                               ELSE [t |-> "fstr", fmt |-> "Result #{i}", i |-> i],
                     expanded |-> (total <= 3),
                     body |-> body.out]
             rest == Expanders(rs, i + 1, total)
         IN  IF body.exc # "" THEN [exc |-> body.exc, out |-> <<exp>>]
             ELSE [exc |-> rest.exc, out |-> <<exp>> \o rest.out]

render_batch_results(results) ==
    IF results.t \notin {"arr", "str", "obj"}
    THEN [exc |-> "TypeError", out |-> <<>>]                  \* len(results)
    ELSE LET rs == IterElems(results)
             total == Len(rs)
         IN  IF \E i \in 1..total : rs[i].t # "obj"
             THEN [exc |-> "AttributeError", out |-> <<>>]    \* r.get("valid")
             ELSE LET valid_count ==
                          Cardinality({i \in 1..total :
                                          Truthy(DictGet(rs[i], "valid", PyNone))})
                      head == << [w |-> "metric", label |-> "Total",
                                  value |-> PyInt(total)],
                                 [w |-> "metric", label |-> "Valid",
                                  value |-> PyInt(valid_count)],
                                 [w |-> "metric", label |-> "Invalid",
                                  value |-> PyInt(total - valid_count)] >>
                      e == Expanders(rs, 1, total)
                  IN  [exc |-> e.exc, out |-> head \o e.out]

\* results_list = result.get("results", [result])   (line 178)
results_list(result) ==
    IF result.t # "obj" THEN [exc |-> "AttributeError", value |-> PyNone]
    ELSE [exc |-> "", value |-> DictGet(result, "results", PyList(<<result>>))]

----------------------------------------------------------------------------
(* What the user types and what the network answers *)

\* Largest batch sent (lines 167-169)
MaxBatch == 50
\* Bounds of the model: the non-blank lines of a text area run over
\* 0..SmallItems and (MaxBatch - SmallItems)..MaxItems
SmallItems == 2
MaxItems == 52

Letters == <<"a", "b", "c", "d", "e", "f", "g", "h", "i">>

\* The j-th token: two letters, different for different j < 81
Token(j) == <<Letters[((j \div 9) % 9) + 1], Letters[(j % 9) + 1]>>

\* The part of a text area that holds its j-th item, of k.
\*   plain:  one token per line, "\n" between lines
\*   padded: " token\t" lines ended by "\r\n"; an empty line and a line of
\*           spaces follow every third item
\*   dups:   the same token on every line, after a first line of spaces;
\*           lines are ended by "\r"
Piece(pattern, j, k) ==
    CASE pattern = "plain" -> Token(j) \o (IF j < k THEN <<"\n">> ELSE <<>>)
      [] pattern = "padded" ->
            <<" ">> \o Token(j) \o <<"\t", "\r", "\n">>
            \o (IF j % 3 = 0 THEN <<"\n", " ", " ", "\n">> ELSE <<>>)
      [] pattern = "dups" ->
            (IF j = 1 THEN <<" ", "\r">> ELSE <<>>) \o <<"z", "z", "\r">>

RECURSIVE TextFrom(_, _, _)
TextFrom(pattern, j, k) ==
    IF j > k THEN <<>> ELSE Piece(pattern, j, k) \o TextFrom(pattern, j + 1, k)

BatchText(pattern, k) == TextFrom(pattern, 1, k)

\* A text area of blank lines only
BlankText == <<" ", "\n", "\n", "\t">>

ItemCounts == (0..SmallItems) \cup ((MaxBatch - SmallItems)..MaxItems)

AllTexts ==
    {BatchText(p, k) : p \in {"plain", "padded", "dups"}, k \in ItemCounts}
    \cup {BlankText}
SmallTexts == {BatchText("padded", k) : k \in 0..SmallItems} \cup {BlankText}

AllValues == { <<>>, <<" ", "\t">>, <<"a", "b">>, <<" ", "a", "b", " ">>,
               <<"a", " ", "b">> }
SmallValues == { <<" ">>, <<" ", "a", "b", " ">> }

InputTypes == {"Token", "URL"}
BatchTypes == {"Tokens", "URLs"}

StatusCodes == {103, 200, 299, 300, 400, 401, 403, 404, 405, 500}
AllBodies == {TextA, TextB, TextPending, TextNoStatus, TextNullStatus,
              TextResultsAB, TextResultsPending, TextResultsEmpty,
              TextResultsNull, TextResultsStr, TextResultsObj, TextArray,
              TextNull, TextHtml, TextEmpty}

\* The bodies a reply of status c is given here.  http.client reads no body
\* after a 1xx, a 204 or a 304, so resp.text is empty for those.
BodiesOf(c) ==
    IF c \in (100..199) \cup {204, 304} THEN {TextEmpty} ELSE {TextA, TextHtml}

\* Every status with its bodies, and the failures before a response
AllReplies ==
    {r \in {Response(c, t) : c \in StatusCodes, t \in {TextA, TextHtml, TextEmpty}} :
        r.text \in BodiesOf(r.status_code)}
    \cup {ConnectionError, Timeout}
\* One success, one refusal, one failure
FewReplies == {Response(200, TextResultsAB), Response(401, TextHtml), Timeout}
\* A 200 with every body
OkReplies == {Response(200, t) : t \in AllBodies}

SecretsChoices ==
    { [theme |-> PyStr("dark")],
      [theme |-> PyStr("dark"), api_key |-> PyStr("")],
      [theme |-> PyStr("dark"), api_key |-> PyStr("sk-1")] }

----------------------------------------------------------------------------
(* The script runs *)

Idle ==
    [site |-> "none", input_type |-> "", text |-> <<>>, payload |-> <<>>,
     api_key |-> PyNone, posts |-> <<>>, reply |-> [kind |-> "none"],
     error |-> NoMessage, warned |-> FALSE, halt |-> "none", exc |-> "",
     ret |-> Unset, results |-> Unset, rendered |-> <<>>]

Init ==
    /\ secrets \in SecretsChoices
    /\ session_state = [last_single_raw |-> Unset, last_batch_raw |-> Unset]
    /\ run = Idle
    /\ lastOk = [single |-> Unset, batch |-> Unset]

\* The reply is a 2xx whose body parses: the service verified the request.
IsSuccess(reply) ==
    /\ reply.kind = "response"
    /\ 200 <= reply.status_code /\ reply.status_code <= 299
    /\ json_loads(reply.text) # NotJson

\* disabled=not value: the text is not stripped before the test
SingleDisabled_Raw(value) == value = <<>>

\* disabled=not value.strip()   (line 138)
SingleDisabled(value) == Strip(value) = <<>>

\* payload of the Verify handler (line 139)
SinglePayload(input_type, value) ==
    IF input_type = "Token" THEN [token |-> Strip(value)] ELSE [url |-> Strip(value)]

\* The run's record and the assignments that follow call_api's outcome c
\* at the Verify call site; shown is what render_single_result gave
SingleEffects(input_type, value, payload, reply, c, shown) ==
    /\ session_state' =
          IF c.halt = "none"
          THEN [session_state EXCEPT !.last_single_raw = c.ret]
          ELSE session_state
    /\ run' = [site |-> "single", input_type |-> input_type, text |-> value,
               payload |-> payload, api_key |-> c.api_key, posts |-> c.posts,
               reply |-> reply, error |-> c.error, warned |-> FALSE,
               halt |-> IF shown.exc # "" THEN "exception" ELSE c.halt,
               exc |-> IF shown.exc # "" THEN shown.exc ELSE c.exc,
               ret |-> c.ret, results |-> Unset, rendered |-> shown.out]
    /\ lastOk' = IF c.posts # <<>> /\ IsSuccess(reply)
                 THEN [lastOk EXCEPT !.single = json_loads(reply.text)]
                 ELSE lastOk

\* A run with the Verify button pressed (lines 138-143)
ClickVerify(input_type, value, reply) ==
    /\ ~SingleDisabled(value)
    /\ \E payload \in {SinglePayload(input_type, value)} :
       \E c \in {call_api(secrets, payload, reply)} :
       \E shown \in {IF c.halt = "none" THEN render_single_result(c.ret)
                     ELSE [exc |-> "", out |-> <<>>]} :
           SingleEffects(input_type, value, payload, reply, c, shown)
    /\ UNCHANGED secrets

\* disabled=not items   (line 166)
BatchDisabled(items) == items = <<>>

\* items = items[-50:]: the last 50 are kept instead of the first
TruncateItems_Last(items) ==
    IF Len(items) > MaxBatch
    THEN SubSeq(items, Len(items) - MaxBatch + 1, Len(items))
    ELSE items

\* if len(items) > 50: items = items[:50]   (lines 167-169)
TruncateItems(items) ==
    IF Len(items) > MaxBatch THEN SubSeq(items, 1, MaxBatch) ELSE items

\* payload of the Verify All handler (lines 171-173)
BatchPayload(batch_type, items) ==
    IF batch_type = "Tokens" THEN [tokens |-> items] ELSE [urls |-> items]

\* The run's record and the assignments that follow call_api's outcome c
\* at the Verify All call site; shown is what the unwrapping and
\* render_batch_results gave (results: the list handed to the renderer)
BatchEffects(batch_type, raw_input, items, payload, reply, c, shown) ==
    /\ session_state' =
          IF c.halt = "none"
          THEN [session_state EXCEPT !.last_batch_raw = c.ret]
          ELSE session_state
    /\ run' = [site |-> "batch", input_type |-> batch_type,
               text |-> raw_input, payload |-> payload,
               api_key |-> c.api_key, posts |-> c.posts, reply |-> reply,
               error |-> c.error, warned |-> (Len(items) > MaxBatch),
               halt |-> IF shown.exc # "" THEN "exception" ELSE c.halt,
               exc |-> IF shown.exc # "" THEN shown.exc ELSE c.exc,
               ret |-> c.ret, results |-> shown.results, rendered |-> shown.out]
    /\ lastOk' = IF c.posts # <<>> /\ IsSuccess(reply)
                 THEN [lastOk EXCEPT !.batch = json_loads(reply.text)]
                 ELSE lastOk

\* results_list and render_batch_results(results_list) after a call that
\* returned (lines 178-179)
UnwrapAndRender(result) ==
    LET u == results_list(result)
        shown == render_batch_results(u.value)
    IN  IF u.exc # "" THEN [exc |-> u.exc, results |-> Unset, out |-> <<>>]
        ELSE [exc |-> shown.exc, results |-> u.value, out |-> shown.out]

\* A run with the Verify All button pressed (lines 162-179)
ClickVerifyAll(batch_type, raw_input, reply) ==
    \E items \in {BatchItems(raw_input)} :
        /\ ~BatchDisabled(items)
        /\ \E payload \in {BatchPayload(batch_type, TruncateItems(items))} :
           \E c \in {call_api(secrets, payload, reply)} :
           \E shown \in {IF c.halt = "none" THEN UnwrapAndRender(c.ret)
                         ELSE [exc |-> "", results |-> Unset, out |-> <<>>]} :
               BatchEffects(batch_type, raw_input, items, payload, reply, c, shown)
        /\ UNCHANGED secrets

\* A run with no button pressed (a widget was edited, a tab was opened)
Rerun ==
    /\ run # Idle
    /\ run' = Idle
    /\ UNCHANGED <<secrets, session_state, lastOk>>

\* .streamlit/secrets.toml is edited between two runs
EditSecrets(s) ==
    /\ s # secrets
    /\ secrets' = s
    /\ UNCHANGED <<session_state, run, lastOk>>

Verify(values, replies) ==
    \E input_type \in InputTypes, value \in values, reply \in replies :
        ClickVerify(input_type, value, reply)

VerifyAll(texts, replies) ==
    \E batch_type \in BatchTypes, raw_input \in texts, reply \in replies :
        ClickVerifyAll(batch_type, raw_input, reply)

Configure == \E s \in SecretsChoices : EditSecrets(s)

\* Every reply, small inputs
Next ==
    \/ Verify(SmallValues, AllReplies)
    \/ VerifyAll(SmallTexts, AllReplies)
    \/ Rerun
    \/ Configure

Spec == Init /\ [][Next]_vars

\* Every input, few replies
NextInputs ==
    \/ Verify(AllValues, FewReplies)
    \/ VerifyAll(AllTexts, FewReplies)
    \/ Rerun
    \/ Configure

SpecInputs == Init /\ [][NextInputs]_vars

\* Every body in a 200, small inputs, the secrets left as they are
NextRender ==
    \/ Verify(SmallValues, OkReplies)
    \/ VerifyAll({BatchText("plain", SmallItems)}, OkReplies)
    \/ Rerun

SpecRender == Init /\ [][NextRender]_vars

----------------------------------------------------------------------------
(* The client core's vocabulary, read off a run *)

\* A credential is present: api_key is a non-empty string.
CredentialPresent(api_key) == api_key.t = "str" /\ api_key.s # ""

\* The error kind a call_api message stands for
ErrorKind(msg) ==
    CASE msg = MsgNoKey -> "MissingCredential"
      [] msg = Msg401 -> "Unauthorized"
      [] msg = Msg403 -> "Forbidden"
      [] msg.fmt = Msg400("").fmt -> "BadRequest"
      [] msg = Msg405 -> "MethodNotAllowed"
      [] msg.fmt = MsgOther(0, "").fmt -> "ServiceError"
      [] OTHER -> "none"

\* verify was invoked with a credential and the service answered
Answered == run.site # "none" /\ CredentialPresent(run.api_key)
                /\ run.reply.kind = "response"

\* verify ended in an error of kind k, handed over as such: the message is
\* shown, the run stops there, nothing was returned, stored as a result or
\* rendered
FailedWith(k) ==
    /\ run.halt = "stop"
    /\ ErrorKind(run.error) = k
    /\ run.ret = Unset
    /\ run.rendered = <<>>

----------------------------------------------------------------------------
(* C1: when no API key is available (absent or empty), verify fails with   *)
(* MissingCredential and issues no HTTP request at all.                    *)
C1_MissingCredentialNoIO ==
    (run.site # "none" /\ ~CredentialPresent(run.api_key))
        => (run.posts = <<>> /\ FailedWith("MissingCredential"))

C1_Witness ==
    /\ run.site = "batch"
    /\ run.api_key = PyStr("")
    /\ run.posts = <<>>
    /\ run.error = MsgNoKey

C3_ClientErrorKinds ==
    (Answered /\ run.reply.status_code \in {400, 401, 403, 405})
        => /\ FailedWith(CASE run.reply.status_code = 401 -> "Unauthorized"
                           [] run.reply.status_code = 403 -> "Forbidden"
                           [] run.reply.status_code = 400 -> "BadRequest"
                           [] run.reply.status_code = 405 -> "MethodNotAllowed")
           /\ (run.reply.status_code = 400 => run.error.args.text = run.reply.text)
           /\ Len(run.posts) = 1

C3_Witness ==
    /\ Answered
    /\ run.reply.status_code = 405
    /\ run.error = Msg405
    /\ run.halt = "stop"

(* C4: every status outside 200-299 other than 400, 401, 403, 405 gives    *)
(* ServiceError with the status code and the raw body, and only a status   *)
(* in 200-299 yields a success payload.                                    *)
C4_OtherStatusIsServiceError ==
    (Answered /\ run.reply.status_code \notin (200..299) \cup {400, 401, 403, 405})
        => /\ FailedWith("ServiceError")
           /\ run.error.args = [status_code |-> run.reply.status_code,
                                text |-> run.reply.text]

(* C5: a network failure or timeout before any response comes back to the  *)
(* caller as an error value of its own kind, not as an unhandled failure.  *)
C5_TransportErrorSurfaced ==
    (run.site # "none" /\ CredentialPresent(run.api_key)
        /\ run.reply.kind \in {"ConnectionError", "Timeout"})
        => /\ run.halt = "stop"
           /\ run.error # NoMessage
           /\ ErrorKind(run.error) \notin
                 {"MissingCredential", "Unauthorized", "Forbidden", "BadRequest",
                  "MethodNotAllowed", "ServiceError"}

----------------------------------------------------------------------------
\* A line with something other than white space on it
NonBlankLine(line) == \E j \in 1..Len(line) : ~IsSpace(line[j])

\* A non-blank line without the white space around it
Trimmed(line) ==
    LET inked == {j \in 1..Len(line) : ~IsSpace(line[j])}
        first == CHOOSE j \in inked : \A k \in inked : j <= k
        last == CHOOSE j \in inked : \A k \in inked : k <= j
    IN  SubSeq(line, first, last)

\* The array of a batch payload
PayloadItems(payload) ==
    IF "tokens" \in DOMAIN payload THEN payload.tokens ELSE payload.urls

(* C6: the batch sent is the first min(50, n) of the trimmed non-blank     *)
(* lines in their original order, n being the number of non-blank lines;   *)
(* blank lines do not count, duplicates stay, and the truncation warning   *)
(* is given exactly when n > 50.                                           *)
C6_BatchIsFirstFifty ==
    run.site = "batch" =>
        LET lines == splitlines(run.text)
            nonBlank == {i \in 1..Len(lines) : NonBlankLine(lines[i])}
            n == Cardinality(nonBlank)
            sent == PayloadItems(run.payload)
        IN  /\ Len(sent) = (IF n > MaxBatch THEN MaxBatch ELSE n)
            /\ \A i \in nonBlank :
                  LET k == Cardinality({j \in nonBlank : j <= i})
                  IN  k <= Len(sent) => sent[k] = Trimmed(lines[i])
            /\ run.warned <=> (n > MaxBatch)
            /\ \A p \in 1..Len(run.posts) : run.posts[p].json = run.payload

C6_Witness ==
    /\ run.site = "batch"
    /\ run.warned
    /\ Len(run.posts) = 1
    /\ Len(PayloadItems(run.posts[1].json)) = MaxBatch
    /\ \E i \in 1..Len(splitlines(run.text)) : ~NonBlankLine(splitlines(run.text)[i])
    /\ PayloadItems(run.payload)[1] # PayloadItems(run.payload)[2]

(* C7: unwrapBatchResponse takes the value of the results key only when    *)
(* the key exists and holds a sequence; in every other case it yields the  *)
(* one-element sequence holding the whole payload.  Stated for the         *)
(* payloads that are JSON objects, the shape the service documents.        *)
C7_UnwrapResults ==
    (run.site = "batch" /\ run.ret # Unset /\ run.ret.t = "obj") =>
        run.results =
            (IF "results" \in DOMAIN run.ret.o /\ run.ret.o.results.t = "arr"
             THEN run.ret.o.results
             ELSE PyList(<<run.ret>>))

\* The body key of each input type
KeyOf(input_type) ==
    CASE input_type = "Token" -> "token"
      [] input_type = "URL" -> "url"
      [] input_type = "Tokens" -> "tokens"
      [] input_type = "URLs" -> "urls"

(* C8: every request body sent has exactly one of the keys token, url,     *)
(* tokens, urls, the one of the selected input type; token and url hold a  *)
(* non-empty string, tokens and urls an array of 1..50 non-empty strings.  *)
C8_RequestShape ==
    \A p \in 1..Len(run.posts) :
        LET body == run.posts[p].json
            key == KeyOf(run.input_type)
        IN  /\ DOMAIN body = {key}
            /\ (run.site = "single") <=> (key \in {"token", "url"})
            /\ Len(body[key]) >= 1
            /\ key \in {"tokens", "urls"} =>
                  /\ Len(body[key]) <= MaxBatch
                  /\ \A i \in 1..Len(body[key]) : Len(body[key][i]) >= 1

C8_Witness ==
    /\ run.site = "single"
    /\ run.input_type = "URL"
    /\ run.text # Strip(run.text)
    /\ Len(run.posts) = 1
    /\ run.posts[1].json = [url |-> Strip(run.text)]

\* The statuses the client knows, and a result whose status is none of them
KnownStatuses == {"active", "expired", "used", "revoked"}

UnknownStatus(result) ==
    \/ "status" \notin DOMAIN result.o
    \/ result.o.status.t = "null"
    \/ result.o.status.t = "str" /\ result.o.status.s \notin KnownStatuses

(* C9: a result with valid=true whose status is outside {active, expired,  *)
(* used, revoked}, an absent or null status included, is accepted and      *)
(* shown under the "unknown" category; handling it raises no error.        *)
C9_UnknownStatusAccepted ==
    (/\ run.site = "single"
     /\ run.ret # Unset
     /\ run.ret.t = "obj"
     /\ "valid" \in DOMAIN run.ret.o
     /\ run.ret.o.valid = PyBool(TRUE)
     /\ UnknownStatus(run.ret))
        => /\ run.halt = "none"
           /\ run.exc = ""
           /\ \E i \in 1..Len(run.rendered) :
                 /\ run.rendered[i].w = "metric"
                 /\ run.rendered[i].label = "Status"
                 /\ run.rendered[i].value.color = "white"

(* C10: each "last response" slot holds the payload of the latest          *)
(* successful call of its own call site, or nothing when there was none:   *)
(* a success overwrites it whole, a failed call and a call of the other    *)
(* site leave it as it was.                                                *)
C10_SlotsHoldLastSuccess ==
    /\ session_state.last_single_raw = lastOk.single
    /\ session_state.last_batch_raw = lastOk.batch

====
